---- MODULE Spec2Model ----
(***************************************************************************)
(* The multi-strategy room connection manager of lib/trystero-client:      *)
(* joinRoomWithFallback, its connect() passes, the relay health probe      *)
(* waitForRelayOpen, the close/error watcher handleDisconnect and the      *)
(* facade's onReconnect / leave.                                           *)
(*                                                                         *)
(* JavaScript runs one task at a time, so one action of the model is one   *)
(* task of the event loop together with the promise continuations it       *)
(* makes runnable: a settled load(), a socket event, a timer, a settled    *)
(* room.leave(), or a call of the facade by its owner.  A connect() pass   *)
(* is suspended between actions at `await strat.load()`, at                *)
(* `await waitForRelayOpen(..)` or at `await room.leave()`.                *)
(***************************************************************************)
EXTENDS Integers, Sequences, FiniteSets, TLC

\* ------------------------------------------------------------------ bounds
NumStrategies == 3      \* length of the registry prefix that is modelled
MaxLeaveCalls == 1      \* calls of the facade's leave()
\* Spec: overlapping reconnection passes, one reconnect handler.
MaxPasses == 2          \* reconnection passes started by handleDisconnect
MaxHandlers == 1        \* length of reconnectHandlers
\* SpecFanOut: one reconnection pass, several reconnect handlers.
FanOutPasses == 1
FanOutHandlers == 2
\* SpecGetThrows: one reconnection pass, getRelaySockets may throw.
GetThrowsPasses == 1
GetThrowsHandlers == 1
\* SpecMounted: two reconnection passes of a session owned by an effect run.
MountedPasses == 2

\* ---------------------------------------------------------------- registry
\* The ordered registry.  What a module exposes through getRelaySockets is
\* the module's own business: one relay, two relays, no getRelaySockets at
\* all, an empty map.
strategies ==
  SubSeq(<< [name |-> "nostr",   getRelaySockets |-> TRUE,  sockets |-> <<"n1", "n2">>],
            [name |-> "torrent", getRelaySockets |-> FALSE, sockets |-> << >>],
            [name |-> "mqtt",    getRelaySockets |-> TRUE,  sockets |-> << >>],
            [name |-> "ipfs",    getRelaySockets |-> TRUE,  sockets |-> <<"i1">>] >>,
         1, NumStrategies)

Range(s) == {s[n] : n \in 1..Len(s)}

\* A RoomHandle is named by the pass that joined it and the index of its
\* strategy: a pass joins a strategy at most once.
NoRoom == <<0, 0>>

Sockets == UNION {Range(strategies[i].sockets) : i \in 1..Len(strategies)}

\* The strategy whose module owns socket ws.
OwnerOf(ws) == CHOOSE i \in 1..Len(strategies) : ws \in Range(strategies[i].sockets)

\* WebSocket readyState.  OPENING is readyState OPEN before the open event
\* has been dispatched to the listeners.
ReadyStates == {"CONNECTING", "OPENING", "OPEN", "CLOSED"}
IsOpen(rs) == rs \in {"OPENING", "OPEN"}

\* What a call of getRelaySockets can do: TRUE, it throws; FALSE, it returns.
GetOutcomes == BOOLEAN

\* `sockets ? Object.values(sockets) : []` applied to mod.getRelaySockets?.()
SocketList(i) ==
  IF strategies[i].getRelaySockets THEN strategies[i].sockets ELSE << >>

VARIABLES
  sock,                 \* readyState of every relay socket
  passes,               \* the connect() calls made so far; passes[1] is the initial one.
                        \* Of each: its loop index idx, where it is suspended (pc), the
                        \* RoomHandle in hand, its probe, and what it has done so far:
                        \* load() calls, candidates tried with their outcome, sockets it
                        \* passed to watchSockets, reconnect handlers it called
  rooms,                \* the RoomHandles returned by joinRoom |-> calls of their leave()
  currentRoom,          \* let currentRoom   (NoRoom: not yet assigned)
  currentModule,        \* let currentModule (0: undefined)
  active,               \* let active
  reconnectHandlers,    \* let reconnectHandlers
  facade,               \* the promise of joinRoomWithFallback and the object it resolves to
  openListeners,        \* per socket, the passes whose probe listens for "open", in attach order
  timers,               \* passes whose probe timer is pending
  disconnectListeners,  \* <<socket, type>> carrying handleDisconnect
  leaveCalls,           \* number of calls of the facade's leave()
  ignored,              \* handleDisconnect has returned at `if (!active) return`
  owner                 \* the effect run that called joinRoomWithFallback: which
                        \* component it belongs to ("none": a caller left open), its
                        \* `manager` (assigned or not) and `cancelled`, whether its
                        \* cleanup has run, and the rooms it has passed to setRoom

vars == <<sock, passes, rooms, currentRoom, currentModule, active, reconnectHandlers,
          facade, openListeners, timers, disconnectListeners, leaveCalls, ignored,
          owner>>

\* The state as one record, so that the statements of a handler compose.
St ==
  [sock |-> sock, passes |-> passes, rooms |-> rooms, currentRoom |-> currentRoom,
   currentModule |-> currentModule, active |-> active,
   reconnectHandlers |-> reconnectHandlers, facade |-> facade,
   openListeners |-> openListeners, timers |-> timers,
   disconnectListeners |-> disconnectListeners,
   leaveCalls |-> leaveCalls, ignored |-> ignored, owner |-> owner]

Becomes(st) ==
  /\ sock' = st.sock
  /\ passes' = st.passes
  /\ rooms' = st.rooms
  /\ currentRoom' = st.currentRoom
  /\ currentModule' = st.currentModule
  /\ active' = st.active
  /\ reconnectHandlers' = st.reconnectHandlers
  /\ facade' = st.facade
  /\ openListeners' = st.openListeners
  /\ timers' = st.timers
  /\ disconnectListeners' = st.disconnectListeners
  /\ leaveCalls' = st.leaveCalls
  /\ ignored' = st.ignored
  /\ owner' = st.owner

\* ------------------------------------------------------------- connect()
\* strategies[i].load() is called by pass p; the pass awaits it.
StartLoad(st, p, i) ==
  [st EXCEPT !.passes[p].idx = i,
             !.passes[p].pc = "load",
             !.passes[p].loaded = Append(@, i)]

\* Exhausted with the error swallowed: nothing is rejected, the pass only logs.
ExhaustedSwallowed(st, p) ==
  [st EXCEPT !.passes[p].pc = "failed",
             !.passes[p].logged = TRUE]

\* Exhausted with the session given up: a reconnection pass that fails
\* deactivates the session and forgets the current room and module.
ExhaustedGivesUp(st, p) ==
  IF st.passes[p].kind = "initial"
  THEN [st EXCEPT !.passes[p].pc = "failed",
                  !.facade = [status |-> "rejected", room |-> NoRoom, strategy |-> "none"]]
  ELSE [st EXCEPT !.passes[p].pc = "failed",
                  !.passes[p].logged = TRUE,
                  !.active = FALSE,
                  !.currentRoom = NoRoom,
                  !.currentModule = 0]

\* throw new Error("All connection strategies failed"): the initial pass
\* rejects joinRoomWithFallback, a reconnection pass lands in the catch of
\* handleDisconnect, which logs.
Exhausted(st, p) ==
  IF st.passes[p].kind = "initial"
  THEN [st EXCEPT !.passes[p].pc = "failed",
                  !.facade = [status |-> "rejected", room |-> NoRoom, strategy |-> "none"]]
  ELSE [st EXCEPT !.passes[p].pc = "failed",
                  !.passes[p].logged = TRUE]

\* i++ and the loop test of connect().
ConnectNext(st, p) ==
  IF st.passes[p].idx < Len(strategies)
  THEN StartLoad(st, p, st.passes[p].idx + 1)
  ELSE Exhausted(st, p)

\* The pass is through with the candidate in hand: the outcome is noted (a
\* history of the pass, not a variable of the code) and the probe's promise
\* is consumed.
Record(st, p, outcome) ==
  [st EXCEPT !.passes[p].tried =
      Append(@, [idx |-> st.passes[p].idx, outcome |-> outcome,
                 room |-> st.passes[p].room]),
             !.passes[p].probe = "idle"]

\* catch { /* ignore and try next */ }
Caught(st, p, outcome) == ConnectNext(Record(st, p, outcome), p)

\* const connect = async (startIndex = 0) => { for (let i = startIndex; ...
ConnectStart(st, kind) ==
  LET p == Len(st.passes) + 1
      s1 == [st EXCEPT !.passes = Append(@,
               [kind |-> kind, idx |-> 0, pc |-> "start", room |-> NoRoom, probe |-> "idle",
                loaded |-> << >>, tried |-> << >>, asked |-> {}, watched |-> {},
                calls |-> << >>, wired |-> << >>,
                logged |-> FALSE,
                result |-> [room |-> NoRoom, strategy |-> "none"]])]
  IN ConnectNext(s1, p)

\* ------------------------------------------------------ waitForRelayOpen
\* cleanup(): removeEventListener("open", onOpen) on every socket of the list.
Cleanup(st, p, i) ==
  [st EXCEPT !.openListeners =
      [ws \in Sockets |-> IF ws \in Range(SocketList(i))
                          THEN SelectSeq(@[ws], LAMBDA q : q # p)
                          ELSE @[ws]]]

\* onOpen without clearTimeout(timer).
OnOpenKeepsTimer(st, p, i) ==
  IF /\ st.passes[p].idx = i
     /\ st.passes[p].probe = "waiting"
     /\ \E ws \in Range(SocketList(i)) : IsOpen(st.sock[ws])
  THEN Cleanup([st EXCEPT !.passes[p].probe = "true"], p, i)
  ELSE st

\* onOpen of the probe pass p made for strategy i.  Its `resolved` is false
\* exactly while the pass is suspended in (or still scanning for) that probe.
OnOpen(st, p, i) ==
  IF /\ st.passes[p].idx = i
     /\ st.passes[p].probe = "waiting"
     /\ \E ws \in Range(SocketList(i)) : IsOpen(st.sock[ws])
  THEN Cleanup([st EXCEPT !.passes[p].probe = "true",
                          !.timers = @ \ {p}], p, i)
  ELSE st

\* The forEach without the readyState test: it only attaches the listeners.
RECURSIVE ProbeScanListensOnly(_, _, _, _)
ProbeScanListensOnly(st, p, i, n) ==
  IF n > Len(SocketList(i)) THEN st
  ELSE LET ws == SocketList(i)[n]
           s1 == IF p \in Range(st.openListeners[ws]) THEN st
                 ELSE [st EXCEPT !.openListeners[ws] = Append(@, p)]
       IN ProbeScanListensOnly(s1, p, i, n + 1)

\* list.forEach((ws) => { if (ws.readyState === OPEN) onOpen()
\*                        else ws.addEventListener("open", onOpen, {once: true}) })
RECURSIVE ProbeScan(_, _, _, _)
ProbeScan(st, p, i, n) ==
  IF n > Len(SocketList(i)) THEN st
  ELSE LET ws == SocketList(i)[n]
           s1 == IF IsOpen(st.sock[ws])
                 THEN OnOpen(st, p, i)
                 ELSE IF p \in Range(st.openListeners[ws]) THEN st
                      ELSE [st EXCEPT !.openListeners[ws] = Append(@, p)]
       IN ProbeScan(s1, p, i, n + 1)

\* waitForRelayOpen without `if (list.length === 0) return true`: the timer
\* is started whatever the list.
WaitForRelayOpenAlwaysTimed(st, p, i) ==
  ProbeScan([st EXCEPT !.passes[p].probe = "waiting",
                       !.timers = @ \cup {p}], p, i, 1)

\* waitForRelayOpen without the setTimeout: only an open event resolves it.
WaitForRelayOpenNoTimer(st, p, i) ==
  IF Len(SocketList(i)) = 0
  THEN [st EXCEPT !.passes[p].probe = "true"]
  ELSE ProbeScan([st EXCEPT !.passes[p].probe = "waiting"], p, i, 1)

\* The synchronous part of waitForRelayOpen(mod.getRelaySockets?.()).
\* passes[p].probe is the promise: "true"/"false" once resolved, "waiting"
\* while the timer is pending.
WaitForRelayOpen(st, p, i) ==
  IF Len(SocketList(i)) = 0
  THEN [st EXCEPT !.passes[p].probe = "true"]
  ELSE ProbeScan([st EXCEPT !.passes[p].probe = "waiting",
                            !.timers = @ \cup {p}], p, i, 1)

\* The timeout callback resolving false without looking at the sockets.
OnTimeoutAlwaysFalse(st, p) ==
  LET i == st.passes[p].idx
      s1 == [st EXCEPT !.timers = @ \ {p}]
  IN IF st.passes[p].probe = "waiting"
     THEN Cleanup([s1 EXCEPT !.passes[p].probe = "false"], p, i)
     ELSE s1

\* The setTimeout callback of the probe of pass p.
OnTimeout(st, p) ==
  LET i == st.passes[p].idx
      s1 == [st EXCEPT !.timers = @ \ {p}]
  IN IF st.passes[p].probe = "waiting"
     THEN Cleanup([s1 EXCEPT !.passes[p].probe =
                     IF \E ws \in Range(SocketList(i)) : IsOpen(st.sock[ws])
                     THEN "true" ELSE "false"], p, i)
     ELSE s1

\* ------------------------------------------------------------ watchSockets
\* Called by pass p with the sockets of strategy i.
WatchSockets(st, p, i) ==
  [st EXCEPT !.disconnectListeners =
      @ \cup {<<ws, t>> : ws \in Range(SocketList(i)), t \in {"close", "error"}},
             !.passes[p].watched = @ \cup Range(SocketList(i))]

\* ------------------------------------------------------------ the facade
\* leave() leaving the room the facade exposes instead of currentRoom.
FacadeLeaveFacadeRoom(st) ==
  LET s1 == [st EXCEPT !.active = FALSE,
                       !.reconnectHandlers = << >>,
                       !.leaveCalls = @ + 1]
      s2 == IF st.currentModule # 0 /\ strategies[st.currentModule].getRelaySockets
            THEN [s1 EXCEPT !.disconnectListeners =
                    @ \ {<<ws, t>> : ws \in Range(SocketList(st.currentModule)),
                                     t \in {"close", "error"}}]
            ELSE s1
  IN [s2 EXCEPT !.rooms[st.facade.room] = @ + 1]

\* leave() without `reconnectHandlers = []`.
FacadeLeaveKeepsHandlers(st) ==
  LET s1 == [st EXCEPT !.active = FALSE,
                       !.leaveCalls = @ + 1]
      s2 == IF st.currentModule # 0 /\ strategies[st.currentModule].getRelaySockets
            THEN [s1 EXCEPT !.disconnectListeners =
                    @ \ {<<ws, t>> : ws \in Range(SocketList(st.currentModule)),
                                     t \in {"close", "error"}}]
            ELSE s1
  IN [s2 EXCEPT !.rooms[st.currentRoom] = @ + 1]

\* leave() of the object joinRoomWithFallback returns.
FacadeLeave(st) ==
  LET s1 == [st EXCEPT !.active = FALSE,
                       !.reconnectHandlers = << >>,
                       !.leaveCalls = @ + 1]
      s2 == IF st.currentModule # 0 /\ strategies[st.currentModule].getRelaySockets
            THEN [s1 EXCEPT !.disconnectListeners =
                    @ \ {<<ws, t>> : ws \in Range(SocketList(st.currentModule)),
                                     t \in {"close", "error"}}]
            ELSE s1
  IN [s2 EXCEPT !.rooms[st.currentRoom] = @ + 1]

\* onReconnect(handler) { reconnectHandlers.push(handler) }
FacadeOnReconnect(st, h) ==
  [st EXCEPT !.reconnectHandlers = Append(@, h)]

\* ------------------------------------------------- the effects that join
\* The components whose effect calls joinRoomWithFallback.
Components == {"useTrysteroRoom", "App"}

\* The reconnect handler both effects register; neither body is modelled as
\* throwing.
OwnersHandler == [id |-> 1, throws |-> FALSE]

\* UseTrysteroRoomJoined without the test of `cancelled`.
UseTrysteroRoomJoinedUnchecked(st) ==
  FacadeOnReconnect([st EXCEPT !.owner.manager = TRUE,
                               !.owner.setRoom = Append(@, st.facade.room)],
                    OwnersHandler)

\* useTrysteroRoom, after `manager = await joinRoomWithFallback(config, roomId)`:
\* if (cancelled) { manager.leave(); return }
\* setRoom(manager.room); manager.onReconnect((r) => setRoom(r))
UseTrysteroRoomJoined(st) ==
  LET s1 == [st EXCEPT !.owner.manager = TRUE]
  IN IF st.owner.cancelled
     THEN FacadeLeave(s1)
     ELSE FacadeOnReconnect([s1 EXCEPT !.owner.setRoom = Append(@, st.facade.room)],
                            OwnersHandler)

\* useTrysteroRoom's cleanup: cancelled = true; manager?.leave()
UseTrysteroRoomCleanup(st) ==
  LET s1 == [st EXCEPT !.owner.cancelled = TRUE, !.owner.cleaned = TRUE]
  IN IF st.owner.manager THEN FacadeLeave(s1) ELSE s1

\* App, the callback of joinRoomWithFallback(...).then: manager = mgr;
\* setRoom(mgr.room); ...; mgr.onReconnect((r) => {...})
AppJoined(st) ==
  FacadeOnReconnect([st EXCEPT !.owner.manager = TRUE,
                               !.owner.setRoom = Append(@, st.facade.room)],
                    OwnersHandler)

\* App's cleanup: manager?.leave()
AppCleanup(st) ==
  LET s1 == [st EXCEPT !.owner.cleaned = TRUE]
  IN IF st.owner.manager THEN FacadeLeave(s1) ELSE s1

\* The promise of joinRoomWithFallback has resolved: the continuation of the
\* effect that awaits it runs in the same task.
Joined(st) ==
  CASE st.owner.kind = "useTrysteroRoom" -> UseTrysteroRoomJoined(st)
    [] st.owner.kind = "App" -> AppJoined(st)
    [] OTHER -> st

\* The body of the reconnect handler the owner registered, called with room r:
\* useTrysteroRoom's is (r) => setRoom(r), App's calls no setRoom.
HandlerBody(st, r) ==
  IF st.owner.kind = "useTrysteroRoom"
  THEN [st EXCEPT !.owner.setRoom = Append(@, r)]
  ELSE st

\* ------------------------------------------------------ handleDisconnect
\* What a reconnect handler called by pass p finds when it is called (a
\* history of the pass): the room it is given is currentRoom, the module of
\* that room is currentModule, and the pass has attached close and error
\* listeners to every socket of that module.
Wired(st, p) ==
  /\ st.currentRoom = st.passes[p].result.room
  /\ st.currentModule = st.passes[p].idx
  /\ \A ws \in Range(SocketList(st.passes[p].idx)) :
       /\ ws \in st.passes[p].watched
       /\ <<ws, "close">> \in st.disconnectListeners
       /\ <<ws, "error">> \in st.disconnectListeners

\* reconnectHandlers.forEach((fn) => fn(room, strategy)); a handler that
\* throws ends the forEach and lands in the catch, which logs.
RECURSIVE FanOut(_, _, _, _)
FanOut(st, p, hs, n) ==
  IF n > Len(hs) THEN st
  ELSE LET s0 == [st EXCEPT !.passes[p].calls = Append(@,
                     [handler |-> hs[n].id,
                      room |-> st.passes[p].result.room,
                      strategy |-> st.passes[p].result.strategy]),
                            !.passes[p].wired = Append(@, Wired(st, p))]
           s1 == HandlerBody(s0, st.passes[p].result.room)
       IN IF hs[n].throws
          THEN [s1 EXCEPT !.passes[p].logged = TRUE]
          ELSE FanOut(s1, p, hs, n + 1)

\* Returned with the facade kept up to date: a reconnection writes its room
\* and strategy into the facade before the handlers run.
ReturnedUpdatesFacade(st, p) ==
  IF st.passes[p].kind = "initial"
  THEN Joined([st EXCEPT !.facade = [status |-> "resolved",
                                     room |-> st.passes[p].result.room,
                                     strategy |-> st.passes[p].result.strategy]])
  ELSE FanOut([st EXCEPT !.facade.room = st.passes[p].result.room,
                         !.facade.strategy = st.passes[p].result.strategy],
              p, st.reconnectHandlers, 1)

\* Returned with a catch that gives the session up: when a reconnect handler
\* has thrown, the session is deactivated.
ReturnedDeactivatesOnThrow(st, p) ==
  IF st.passes[p].kind = "initial"
  THEN Joined([st EXCEPT !.facade = [status |-> "resolved",
                                     room |-> st.passes[p].result.room,
                                     strategy |-> st.passes[p].result.strategy]])
  ELSE LET s1 == FanOut(st, p, st.reconnectHandlers, 1)
       IN IF s1.passes[p].logged THEN [s1 EXCEPT !.active = FALSE] ELSE s1

\* connect() has returned {room, strategy} to its caller: joinRoomWithFallback
\* builds the facade and resolves to it, handleDisconnect dispatches the
\* reconnect handlers.
Returned(st, p) ==
  IF st.passes[p].kind = "initial"
  THEN Joined([st EXCEPT !.facade = [status |-> "resolved",
                                     room |-> st.passes[p].result.room,
                                     strategy |-> st.passes[p].result.strategy]])
  ELSE FanOut(st, p, st.reconnectHandlers, 1)

\* Adopt without the return: the loop goes on to the next strategy.
AdoptNoReturn(st, p, getThrows) ==
  LET i == st.passes[p].idx
      s1 == [st EXCEPT !.currentRoom = st.passes[p].room,
                       !.currentModule = i]
  IN Caught(WatchSockets(s1, p, i), p, "ok")

\* Adopt with the caller told first: connect() hands {room, strategy} over
\* and only then assigns currentRoom and currentModule and watches the sockets.
AdoptReturnsFirst(st, p, getThrows) ==
  LET i == st.passes[p].idx
      s1 == Returned([Record(st, p, "ok") EXCEPT
                        !.passes[p].pc = "done",
                        !.passes[p].result = [room |-> st.passes[p].room,
                                              strategy |-> strategies[i].name]], p)
  IN WatchSockets([s1 EXCEPT !.currentRoom = st.passes[p].room,
                             !.currentModule = i], p, i)

\* if (ok) { currentRoom = room; currentModule = mod;
\*           watchSockets(mod.getRelaySockets?.()); return {room, strategy} }
\* getThrows: this call of getRelaySockets throws.
Adopt(st, p, getThrows) ==
  LET i == st.passes[p].idx
      s1 == [st EXCEPT !.currentRoom = st.passes[p].room,
                       !.currentModule = i]
  IN IF strategies[i].getRelaySockets /\ getThrows
     THEN Caught(s1, p, "watch")
     ELSE Returned([Record(WatchSockets(s1, p, i), p, "ok") EXCEPT
                      !.passes[p].pc = "done",
                      !.passes[p].result = [room |-> st.passes[p].room,
                                            strategy |-> strategies[i].name]], p)

\* AfterProbe with the rejected candidate abandoned: no room.leave().
AfterProbeNoLeave(st, p, getThrows) ==
  IF st.passes[p].probe = "true"
  THEN Adopt(st, p, getThrows)
  ELSE Caught(st, p, "unhealthy")

\* AfterProbe with the sockets watched before the verdict is looked at.
AfterProbeWatchesFirst(st, p, getThrows) ==
  LET s1 == WatchSockets(st, p, st.passes[p].idx)
  IN IF st.passes[p].probe = "true"
     THEN Adopt(s1, p, getThrows)
     ELSE [Record(s1, p, "unhealthy") EXCEPT
             !.rooms[st.passes[p].room] = @ + 1,
             !.passes[p].pc = "leave"]

\* The continuation of `const ok = await waitForRelayOpen(..)`.
AfterProbe(st, p, getThrows) ==
  IF st.passes[p].probe = "true"
  THEN Adopt(st, p, getThrows)
  ELSE [Record(st, p, "unhealthy") EXCEPT
          !.rooms[st.passes[p].room] = @ + 1,
          !.passes[p].pc = "leave"]

\* AfterLoad with joinRoom outside the try: its exception ends the pass.
AfterLoadJoinEscapes(st, p, joinThrows, probeGetThrows, watchGetThrows) ==
  LET i == st.passes[p].idx
      r == <<p, i>>
      s0 == [st EXCEPT !.passes[p].room = NoRoom]
      s1 == [st EXCEPT !.rooms = (r :> 0) @@ @,
                       !.passes[p].room = r,
                       !.passes[p].pc = "probe",
                       !.passes[p].asked = IF strategies[i].getRelaySockets
                                           THEN @ \cup {i} ELSE @]
  IN IF joinThrows THEN Exhausted(Record(s0, p, "join"), p)
     ELSE IF strategies[i].getRelaySockets /\ probeGetThrows
          THEN Caught(s1, p, "sockets")
          ELSE LET s2 == WaitForRelayOpen(s1, p, i)
               IN IF s2.passes[p].probe = "waiting" THEN s2
                  ELSE AfterProbe(s2, p, watchGetThrows)

\* AfterLoad with the sockets asked for and watched before joinRoom is called.
AfterLoadWatchesFirst(st, p, joinThrows, probeGetThrows, watchGetThrows) ==
  LET i == st.passes[p].idx
      r == <<p, i>>
      s0 == [st EXCEPT !.passes[p].room = NoRoom,
                       !.passes[p].asked = IF strategies[i].getRelaySockets
                                           THEN @ \cup {i} ELSE @]
      s1 == [st EXCEPT !.rooms = (r :> 0) @@ @,
                       !.passes[p].room = r,
                       !.passes[p].pc = "probe",
                       !.passes[p].asked = IF strategies[i].getRelaySockets
                                           THEN @ \cup {i} ELSE @]
  IN IF joinThrows THEN Caught(WatchSockets(s0, p, i), p, "join")
     ELSE IF strategies[i].getRelaySockets /\ probeGetThrows
          THEN Caught(s1, p, "sockets")
          ELSE LET s2 == WaitForRelayOpen(s1, p, i)
               IN IF s2.passes[p].probe = "waiting" THEN s2
                  ELSE AfterProbe(s2, p, watchGetThrows)

\* The continuation of `const mod = await strat.load()` when load() resolved.
\* passes[p].asked notes the call of mod.getRelaySockets, which `?.` makes
\* only on a module that has one.
AfterLoad(st, p, joinThrows, probeGetThrows, watchGetThrows) ==
  LET i == st.passes[p].idx
      r == <<p, i>>
      s0 == [st EXCEPT !.passes[p].room = NoRoom]
      s1 == [st EXCEPT !.rooms = (r :> 0) @@ @,
                       !.passes[p].room = r,
                       !.passes[p].pc = "probe",
                       !.passes[p].asked = IF strategies[i].getRelaySockets
                                           THEN @ \cup {i} ELSE @]
  IN IF joinThrows THEN Caught(s0, p, "join")
     ELSE IF strategies[i].getRelaySockets /\ probeGetThrows
          THEN Caught(s1, p, "sockets")
          ELSE LET s2 == WaitForRelayOpen(s1, p, i)
               IN IF s2.passes[p].probe = "waiting" THEN s2
                  ELSE AfterProbe(s2, p, watchGetThrows)

\* handleDisconnect without the `if (!active) return`.
HandleDisconnectUnguarded(st) == ConnectStart(st, "reconnect")

\* handleDisconnect resuming the scan at the current strategy: connect(i) with
\* i the index of currentModule.
HandleDisconnectResumes(st) ==
  LET s1 == ConnectStart(st, "reconnect")
      p == Len(s1.passes)
  IN IF ~st.active
     THEN [st EXCEPT !.ignored = TRUE]
     ELSE [s1 EXCEPT !.passes[p].idx = st.currentModule,
                     !.passes[p].loaded = <<st.currentModule>>]

\* const handleDisconnect = async () => { if (!active) return; ... connect(0)
HandleDisconnect(st) ==
  IF ~st.active
  THEN [st EXCEPT !.ignored = TRUE]
  ELSE ConnectStart(st, "reconnect")

\* --------------------------------------------------------- event dispatch
\* The open listeners of socket ws, in attach order, as the dispatch finds them.
OpenListenersOn(st, ws) == st.openListeners[ws]

\* Dispatch of "open" on ws: every listener found at the start and not
\* removed meanwhile runs once (it is {once: true}); the continuations it
\* makes runnable run before the next listener.
RECURSIVE FireOpen(_, _, _, _, _)
FireOpen(st, ws, ls, n, getThrows) ==
  IF n > Len(ls) THEN st
  ELSE LET p == ls[n]
           s1 == [st EXCEPT !.openListeners[ws] = SelectSeq(@, LAMBDA q : q # p)]
           s2 == OnOpen(s1, p, OwnerOf(ws))
           s3 == IF s2.passes[p].probe = "true" THEN AfterProbe(s2, p, getThrows[p]) ELSE s2
       IN IF p \in Range(st.openListeners[ws])
          THEN FireOpen(s3, ws, ls, n + 1, getThrows)
          ELSE FireOpen(st, ws, ls, n + 1, getThrows)

\* Dispatch of "close" or "error" on ws.
FireDisconnect(st, ws, type) ==
  IF <<ws, type>> \in st.disconnectListeners THEN HandleDisconnect(st) ELSE st

\* A further reconnection pass fits the bound maxPasses.
PassFits(st, ws, type, maxPasses) ==
  (<<ws, type>> \in st.disconnectListeners /\ st.active) => Len(st.passes) <= maxPasses

\* ------------------------------------------------------------------ Init
\* joinRoomWithFallback has been called by an effect run of component kind
\* and has reached its first await.
Start(kind) ==
  /\ sock = [ws \in Sockets |-> "CONNECTING"]
  /\ passes = ConnectStart([passes |-> << >>], "initial").passes
  /\ rooms = << >>
  /\ currentRoom = NoRoom
  /\ currentModule = 0
  /\ active = TRUE
  /\ reconnectHandlers = << >>
  /\ facade = [status |-> "pending", room |-> NoRoom, strategy |-> "none"]
  /\ openListeners = [ws \in Sockets |-> << >>]
  /\ timers = {}
  /\ disconnectListeners = {}
  /\ leaveCalls = 0
  /\ ignored = FALSE
  /\ owner = [kind |-> kind, manager |-> FALSE, cancelled |-> FALSE, cleaned |-> FALSE,
              setRoom |-> << >>]

Init == Start("none")

\* The session joined by the effect of a mounted component.
InitMounted == \E kind \in Components : Start(kind)

\* --------------------------------------------------------------- actions
\* strat.load() rejects.
LoadRejects(p) ==
  /\ passes[p].pc = "load"
  /\ Becomes(Caught([St EXCEPT !.passes[p].room = NoRoom], p, "load"))

\* strat.load() resolves; joinRoom and the start of the probe follow.
\* G: what a call of getRelaySockets can do.
LoadResolves(p, G) ==
  /\ passes[p].pc = "load"
  /\ \E joinThrows \in BOOLEAN, g1 \in G, g2 \in G :
       Becomes(AfterLoad(St, p, joinThrows, g1, g2))

\* The probe's timer fires.
ProbeTimeout(p, G) ==
  /\ p \in timers
  /\ \E g \in G : Becomes(AfterProbe(OnTimeout(St, p), p, g))

\* The awaited room.leave() of a rejected candidate settles (resolved or
\* rejected: the catch goes on to the next strategy all the same).
LeaveSettles(p) ==
  /\ passes[p].pc = "leave"
  /\ Becomes(ConnectNext(St, p))

\* The connection is established: readyState turns OPEN.
SocketReady(ws) ==
  /\ sock[ws] = "CONNECTING"
  /\ sock' = [sock EXCEPT ![ws] = "OPENING"]
  /\ UNCHANGED <<passes, rooms, currentRoom, currentModule, active, reconnectHandlers,
                 facade, openListeners, timers, disconnectListeners, leaveCalls, ignored,
                 owner>>

\* The open event is dispatched.
SocketOpen(ws, G) ==
  /\ sock[ws] \in {"CONNECTING", "OPENING"}
  /\ LET s1 == [St EXCEPT !.sock[ws] = "OPEN"]
     IN \E g \in [1..Len(passes) -> G] :
          Becomes(FireOpen(s1, ws, OpenListenersOn(s1, ws), 1, g))

\* The error event is dispatched.
SocketError(ws, maxPasses) ==
  /\ sock[ws] # "CLOSED"
  /\ PassFits(St, ws, "error", maxPasses)
  /\ Becomes(FireDisconnect(St, ws, "error"))

\* The socket closes and the close event is dispatched.
SocketClose(ws, maxPasses) ==
  /\ sock[ws] # "CLOSED"
  /\ PassFits(St, ws, "close", maxPasses)
  /\ Becomes(FireDisconnect([St EXCEPT !.sock[ws] = "CLOSED"], ws, "close"))

\* The owner of the facade registers a reconnect handler, one that returns
\* or one that throws.
OnReconnect(maxHandlers) ==
  /\ facade.status = "resolved"
  /\ Len(reconnectHandlers) < maxHandlers
  /\ \E throws \in BOOLEAN :
       Becomes(FacadeOnReconnect(St, [id |-> Len(reconnectHandlers) + 1, throws |-> throws]))

\* The owner of the facade calls leave().
Leave ==
  /\ facade.status = "resolved"
  /\ leaveCalls < MaxLeaveCalls
  /\ Becomes(FacadeLeave(St))

\* React runs the cleanup of the effect run, once: the component unmounts or
\* the effect's dependencies change.
EffectCleanup ==
  /\ ~owner.cleaned
  /\ \/ owner.kind = "useTrysteroRoom" /\ Becomes(UseTrysteroRoomCleanup(St))
     \/ owner.kind = "App" /\ Becomes(AppCleanup(St))

\* What the strategies, the sockets and the timers do to the session, where
\* getRelaySockets behaves as G allows.
Environment(G, maxPasses) ==
  \/ \E p \in 1..Len(passes) : LoadRejects(p)
  \/ \E p \in 1..Len(passes) : LoadResolves(p, G)
  \/ \E p \in 1..Len(passes) : ProbeTimeout(p, G)
  \/ \E p \in 1..Len(passes) : LeaveSettles(p)
  \/ \E ws \in Sockets : SocketReady(ws)
  \/ \E ws \in Sockets : SocketOpen(ws, G)
  \/ \E ws \in Sockets : SocketError(ws, maxPasses)
  \/ \E ws \in Sockets : SocketClose(ws, maxPasses)

\* The session in an environment where getRelaySockets behaves as G allows,
\* within the given bounds, its owner calling onReconnect and leave at will.
Session(G, maxPasses, maxHandlers) ==
  \/ Environment(G, maxPasses)
  \/ OnReconnect(maxHandlers)
  \/ Leave

Next == Session({FALSE}, MaxPasses, MaxHandlers)

Spec == Init /\ [][Next]_vars

NextFanOut == Session({FALSE}, FanOutPasses, FanOutHandlers)

SpecFanOut == Init /\ [][NextFanOut]_vars

NextGetThrows == Session(GetOutcomes, GetThrowsPasses, GetThrowsHandlers)

SpecGetThrows == Init /\ [][NextGetThrows]_vars

\* The session owned by an effect run of useTrysteroRoom or of App.
NextMounted ==
  \/ Environment({FALSE}, MountedPasses)
  \/ EffectCleanup

SpecMounted == InitMounted /\ [][NextMounted]_vars

\* What a suspended pass waits for: its load() settles, its probe's timer
\* fires, the room.leave() it awaits settles.
Settles(G) ==
  \E p \in 1..Len(passes) :
    LoadRejects(p) \/ LoadResolves(p, G) \/ ProbeTimeout(p, G) \/ LeaveSettles(p)

\* Some pass is suspended in connect(): this is ENABLED <<Settles(G)>>_vars,
\* a probe being awaited only while its timer is pending.
Suspended == \E p \in 1..Len(passes) : passes[p].pc \in {"load", "probe", "leave"}

\* Weak fairness of Settles, WF_vars(Settles(G)), written out: as long as
\* some pass is suspended, one of them gets what it waits for.
Settling(G) == []<>(~Suspended) \/ []<><<Settles(G)>>_vars

SpecSettling == Init /\ [][NextFanOut]_vars /\ Settling({FALSE})

\* ================================================================ claims
PassIds == 1..Len(passes)

\* The ways a candidate fails that the registry decides: load() rejects,
\* joinRoom throws, no socket is open when the probe ends.
Failures == {"load", "join", "unhealthy"}

\* Pass p is suspended inside connect().
InFlight(p) == passes[p].pc \in {"load", "probe", "leave"}

\* The sockets that carry handleDisconnect for close or for error.
Watched == {ws \in Sockets : \E type \in {"close", "error"} : <<ws, type>> \in disconnectListeners}

\* RoomHandle r has been adopted as current: it is what its pass returned.
Adopted(r) == passes[r[1]].result.room = r

\* Pass p comes to an end in this step with the given pc.
Ends(p, pc) == passes[p].pc # pc /\ passes'[p].pc = pc

\* ------------------------------------------------------------------- C1
\* C1: in every pass, when strategies 1..k-1 have failed (load rejected,
\* joinRoom threw, probe unhealthy) and strategy k is found healthy, the pass
\* is over: it has returned the room it joined on strategy k and the name of
\* strategy k, it has called load() on 1..k and on nothing else, and it has
\* joined no room of a later strategy.
C1_FirstHealthyStrategyWins ==
  \A p \in PassIds :
    \A k \in 1..Len(passes[p].tried) :
      (/\ passes[p].tried[k].outcome = "ok"
       /\ \A j \in 1..(k - 1) : passes[p].tried[j].outcome \in Failures)
      => /\ k = Len(passes[p].tried)
         /\ \A j \in 1..k : passes[p].tried[j].idx = j
         /\ passes[p].pc = "done"
         /\ passes[p].result = [room |-> <<p, k>>, strategy |-> strategies[k].name]
         /\ passes[p].tried[k].room = <<p, k>>
         /\ passes[p].loaded = [j \in 1..k |-> j]
         /\ \A r \in DOMAIN rooms : r[1] = p => r[2] <= k

\* A pass has returned a strategy that is neither the first nor the last:
\* earlier ones failed, later ones exist and were left alone.
C1_Witness ==
  \E p \in PassIds :
    /\ passes[p].pc = "done"
    /\ passes[p].idx > 1
    /\ passes[p].idx < Len(strategies)
    /\ passes[p].result.strategy = strategies[passes[p].idx].name

\* ------------------------------------------------------------------- C2
\* C2 as claimed: at the step in which a pass rejects with the exhaustion
\* error, no socket of a candidate it joined and discarded carries a
\* close/error disconnect listener.
C2_NoListenerOnDiscardedCandidates ==
  [][\A p \in PassIds :
       Ends(p, "failed") =>
         \A k \in 1..Len(passes'[p].tried) :
           passes'[p].tried[k].room # NoRoom =>
             Range(SocketList(passes'[p].tried[k].idx)) \cap Watched' = {}]_vars

\* C2 as amended: a pass rejects with the exhaustion error exactly when every
\* strategy of the registry has failed in it (and the last rejected room's
\* leave() has settled); the initial pass then rejects joinRoomWithFallback;
\* and such a pass has itself attached no close/error listener to any socket.
C2_FailedPassAttachedNoListener ==
  \A p \in PassIds :
    LET allFailed == /\ Len(passes[p].tried) = Len(strategies)
                     /\ \A k \in 1..Len(passes[p].tried) : passes[p].tried[k].outcome # "ok"
    IN /\ passes[p].pc = "failed" <=> (allFailed /\ passes[p].pc # "leave")
       /\ passes[p].pc = "failed" =>
            /\ passes[p].watched = {}
            /\ passes[p].kind = "initial" => facade.status = "rejected"
            /\ passes[p].kind = "reconnect" => passes[p].logged

\* A reconnection pass has joined and discarded a candidate with sockets and
\* has then failed on every strategy, while listeners of an earlier adoption
\* are on those sockets.
C2_Witness ==
  \E p \in PassIds :
    /\ passes[p].pc = "failed"
    /\ passes[p].kind = "reconnect"
    /\ \E k \in 1..Len(passes[p].tried) :
         /\ passes[p].tried[k].outcome = "unhealthy"
         /\ Range(SocketList(passes[p].tried[k].idx)) \cap Watched # {}

\* ------------------------------------------------------------------- C3
\* C3: there is one initial pass, the first, started at the first strategy;
\* joinRoomWithFallback is rejected exactly when that pass has exhausted the
\* registry and resolved exactly when it has returned, to a facade with the
\* room and the strategy name that pass adopted; while it is not resolved no
\* handler is registered, leave() is not called and nothing is watched on its
\* behalf.
C3_FacadeFollowsInitialPass ==
  /\ passes[1].kind = "initial"
  /\ passes[1].loaded[1] = 1
  /\ \A p \in PassIds : p > 1 => passes[p].kind = "reconnect"
  /\ facade.status = "rejected" <=> passes[1].pc = "failed"
  /\ facade.status = "resolved" <=> passes[1].pc = "done"
  /\ facade.status = "resolved" =>
       LET k == passes[1].idx
       IN /\ facade.room = <<1, k>>
          /\ facade.strategy = strategies[k].name
          /\ passes[1].tried[Len(passes[1].tried)] =
               [idx |-> k, outcome |-> "ok", room |-> facade.room]
          /\ facade.room \in DOMAIN rooms
  /\ facade.status # "resolved" =>
       /\ reconnectHandlers = << >>
       /\ leaveCalls = 0
       /\ Len(passes) = 1

\* joinRoomWithFallback has been rejected after candidates were joined.
C3_Witness ==
  /\ facade.status = "rejected"
  /\ passes[1].pc = "failed"
  /\ \E k \in 1..Len(passes[1].tried) : passes[1].tried[k].outcome = "unhealthy"

\* ------------------------------------------------------------------- C4
\* C4 as claimed: in the step in which a reconnection pass returns, every
\* handler registered at that moment is called exactly once, in registration
\* order, with the room that has just become current and the name of its
\* strategy.
C4_EveryHandlerCalledOnceInOrder ==
  [][\A p \in PassIds :
       (passes[p].kind = "reconnect" /\ Ends(p, "done")) =>
         passes'[p].calls =
           [n \in 1..Len(reconnectHandlers) |->
              [handler |-> reconnectHandlers[n].id,
               room |-> currentRoom',
               strategy |-> strategies[currentModule'].name]]]_vars

\* ------------------------------------------------------------------- C5
\* C5: once leave() has been called no connect() pass is started any more,
\* whatever event arrives on whatever socket.
C5_NoPassStartedAfterLeave ==
  [][~active => Len(passes') = Len(passes)]_vars

\* A close or error event has reached handleDisconnect after leave(), through
\* a listener that leave() did not remove.
C5_Witness ==
  /\ ~active
  /\ ignored
  /\ Watched # {}

\* ------------------------------------------------------------------- C6
\* C6 as claimed: once leave() has been called, no pass calls load() or
\* joinRoom, currentRoom does not change, no disconnect listener is attached
\* and no reconnect handler is called.
C6_TeardownIsTerminal ==
  [][~active =>
       /\ \A p \in PassIds : /\ passes'[p].loaded = passes[p].loaded
                             /\ passes'[p].calls = passes[p].calls
       /\ DOMAIN rooms' = DOMAIN rooms
       /\ currentRoom' = currentRoom
       /\ disconnectListeners' \subseteq disconnectListeners]_vars

\* ------------------------------------------------------------------- C7
\* C7 as claimed: at most one reconnection pass is in flight.
C7_OneReconnectionInFlight ==
  Cardinality({p \in PassIds : passes[p].kind = "reconnect" /\ InFlight(p)}) <= 1

\* ------------------------------------------------------------------- C8
\* C8 as claimed: at most one RoomHandle that was adopted as current has not
\* had leave() called on it.
C8_OneAdoptedRoomUnleft ==
  Cardinality({r \in DOMAIN rooms : Adopted(r) /\ rooms[r] = 0}) <= 1

\* ------------------------------------------------------------------- C9
\* C9 as claimed: the sockets that carry the disconnect listener are those
\* of the current strategy while the session is active, and none after
\* leave().
C9_WatchedAreCurrentSockets ==
  Watched = IF active /\ currentModule # 0
            THEN Range(SocketList(currentModule))
            ELSE {}

\* ------------------------------------------------------------------ C10
\* C10: a step in which the probe of a joined candidate ends unhealthy is a
\* step in which that probe's timer stops pending with no socket of the
\* candidate open, and in that step leave() is called on the candidate's
\* RoomHandle while the pass, suspended on that leave(), calls no load().
C10_UnhealthyAtTimeoutThenLeave ==
  [][\A p \in PassIds :
       LET n == Len(passes'[p].tried)
       IN (n > Len(passes[p].tried) /\ passes'[p].tried[n].outcome = "unhealthy") =>
            /\ passes[p].pc = "probe"
            /\ p \in timers
            /\ p \notin timers'
            /\ \A ws \in Range(SocketList(passes[p].idx)) : ~IsOpen(sock[ws])
            /\ passes'[p].tried[n].room = passes[p].room
            /\ passes[p].room \in DOMAIN rooms
            /\ rooms'[passes[p].room] = rooms[passes[p].room] + 1
            /\ passes'[p].pc = "leave"
            /\ passes'[p].loaded = passes[p].loaded]_vars

\* A candidate was found unhealthy, its room was left, and the pass has gone
\* on to load the next strategy.
C10_Witness ==
  \E p \in PassIds :
    \E k \in 1..Len(passes[p].tried) :
      /\ passes[p].tried[k].outcome = "unhealthy"
      /\ rooms[passes[p].tried[k].room] >= 1
      /\ Len(passes[p].loaded) > k

\* ------------------------------------------------------------------ C11
\* C11 as claimed: once a pass is through with a candidate whose joinRoom
\* returned a RoomHandle and which it did not return as adopted, leave() has
\* been called on that RoomHandle, whatever made the candidate fail.
C11_RejectedRoomIsLeft ==
  \A p \in PassIds :
    \A k \in 1..Len(passes[p].tried) :
      (passes[p].tried[k].room # NoRoom /\ passes[p].tried[k].outcome # "ok")
        => rooms[passes[p].tried[k].room] >= 1

\* ------------------------------------------------------------------ C12
\* C12: a step adds at most one pass, and the pass it adds is a reconnection
\* pass of an active session that is awaiting load() of the first strategy of
\* the registry, having tried nothing, whatever strategy is current; a step
\* in which a watched socket of an active session closes, or in which the
\* error event is dispatched on one, adds such a pass.
C12_EventStartsPassAtFirstStrategy ==
  [][/\ Len(passes') <= Len(passes) + 1
     /\ Len(passes') = Len(passes) + 1 =>
          LET q == Len(passes')
          IN /\ active
             /\ passes'[q].kind = "reconnect"
             /\ passes'[q].pc = "load"
             /\ passes'[q].idx = 1
             /\ passes'[q].loaded = <<1>>
             /\ passes'[q].tried = << >>
             /\ \A p \in PassIds : passes'[p].loaded = passes[p].loaded
     /\ \A ws \in Sockets :
          /\ (/\ active
              /\ <<ws, "close">> \in disconnectListeners
              /\ sock[ws] # "CLOSED"
              /\ sock'[ws] = "CLOSED") => Len(passes') = Len(passes) + 1
          /\ (/\ active
              /\ <<ws, "error">> \in disconnectListeners
              /\ sock[ws] # "CLOSED"
              /\ Becomes(FireDisconnect(St, ws, "error"))) => Len(passes') = Len(passes) + 1]_vars

\* A reconnection pass is awaiting load() of the first strategy while a later
\* strategy is the current one.
C12_Witness ==
  \E p \in PassIds :
    /\ passes[p].kind = "reconnect"
    /\ passes[p].pc = "load"
    /\ passes[p].loaded = <<1>>
    /\ currentModule > 1
    /\ active

C15_NoSocketsIsHealthyAtOnce ==
  [][\A p \in PassIds :
       LET i == passes[p].idx
           r == <<p, i>>
       IN (/\ r \notin DOMAIN rooms
           /\ r \in DOMAIN rooms'
           /\ (~strategies[i].getRelaySockets \/ strategies[i].sockets = << >>)) =>
            /\ passes'[p].pc = "done"
            /\ passes'[p].result = [room |-> r, strategy |-> strategies[i].name]
            /\ currentRoom' = r
            /\ currentModule' = i
            /\ rooms'[r] = 0
            /\ timers' = timers
            /\ p \notin timers'
            /\ openListeners' = openListeners]_vars

\* One pass has adopted a strategy without getRelaySockets and another pass a
\* strategy whose getRelaySockets returns an empty map.
C15_Witness ==
  \E p, q \in PassIds :
    /\ passes[p].pc = "done"
    /\ ~strategies[passes[p].idx].getRelaySockets
    /\ passes[q].pc = "done"
    /\ strategies[passes[q].idx].getRelaySockets
    /\ strategies[passes[q].idx].sockets = << >>

\* ------------------------------------------------------------------ C16
\* C16: a step in which the open event is dispatched on a socket is, for
\* every pass whose probe of that socket's strategy is waiting with its timer
\* pending, the step in which the probe resolves true: the pass returns the
\* candidate as adopted, its timer is no longer pending and none of its open
\* listeners is left; and a timer is pending only for a pass suspended in its
\* probe, so the timeout callback of a resolved probe never runs.
C16_OpenEventResolvesProbe ==
  [][/\ \A ws \in Sockets :
          (sock[ws] # "OPEN" /\ sock'[ws] = "OPEN") =>
            \A p \in PassIds :
              (/\ passes[p].pc = "probe"
               /\ p \in timers
               /\ ws \in Range(SocketList(passes[p].idx))) =>
                /\ p \in Range(openListeners[ws])
                /\ p \notin timers'
                /\ passes'[p].pc = "done"
                /\ passes'[p].result.room = passes[p].room
                /\ passes'[p].tried[Len(passes'[p].tried)] =
                     [idx |-> passes[p].idx, outcome |-> "ok", room |-> passes[p].room]
                /\ \A w \in Sockets : p \notin Range(openListeners'[w])
     /\ \A p \in PassIds : p \in timers' => passes'[p].pc = "probe"]_vars

\* A pass has adopted a candidate with two sockets of which the first is open,
\* its open event dispatched, and the second still connecting, and no open
\* listener is left on the second: the probe did not find the first socket
\* open when it scanned the list.
C16_Witness ==
  \E p \in PassIds :
    LET list == SocketList(passes[p].idx)
    IN /\ passes[p].pc = "done"
       /\ Len(list) = 2
       /\ sock[list[1]] = "OPEN"
       /\ sock[list[2]] = "CONNECTING"
       /\ openListeners[list[2]] = << >>
       /\ timers = {}
       /\ Len(passes) = 1

\* ------------------------------------------------------------------ C17
\* C17: a step in which the timer of a probe fires (it stops pending and no
\* open event is dispatched) finds the probe unresolved and resolves it: to
\* true, and the candidate is adopted and returned, when the readyState of
\* some probed socket is OPEN, and to false, and the candidate's room is
\* left, when none is.
C17_TimeoutResolvesToAnyOpen ==
  [][\A p \in PassIds :
       (p \in timers /\ p \notin timers' /\ sock' = sock) =>
         LET i == passes[p].idx
             n == Len(passes'[p].tried)
             open == \E ws \in Range(SocketList(i)) : IsOpen(sock[ws])
         IN /\ passes[p].pc = "probe"
            /\ passes[p].probe = "waiting"
            /\ n = Len(passes[p].tried) + 1
            /\ passes'[p].tried[n] =
                 [idx |-> i, outcome |-> IF open THEN "ok" ELSE "unhealthy",
                  room |-> passes[p].room]
            /\ passes'[p].pc = IF open THEN "done" ELSE "leave"
            /\ rooms'[passes[p].room] = IF open THEN 0 ELSE 1
            /\ \A w \in Sockets : p \notin Range(openListeners'[w])]_vars

\* The initial pass has adopted a candidate with two sockets of which the
\* first has readyState OPEN with its open event not yet dispatched and the
\* second is connecting with no open listener left on it: the probe attached
\* listeners to both and was resolved true by its timer.
C17_Witness ==
  LET list == SocketList(passes[1].idx)
  IN /\ Len(passes) = 1
     /\ passes[1].pc = "done"
     /\ Len(list) = 2
     /\ sock[list[1]] = "OPENING"
     /\ sock[list[2]] = "CONNECTING"
     /\ openListeners[list[2]] = << >>
     /\ timers = {}

\* ------------------------------------------------------------------ C18
\* C18: once joinRoomWithFallback has resolved, the facade never changes: its
\* room and strategy are what the initial pass returned, whatever room is
\* current; and a reconnection pass that returns hands its room and strategy
\* name, those that have just become current, to the handlers it calls.
C18_FacadeKeepsInitialResult ==
  [][/\ facade.status = "resolved" => facade' = facade
     /\ facade'.status = "resolved" =>
          /\ facade'.room = passes'[1].result.room
          /\ facade'.strategy = passes'[1].result.strategy
     /\ \A p \in PassIds :
          /\ passes'[p].calls # passes[p].calls =>
               /\ passes[p].kind = "reconnect"
               /\ Ends(p, "done")
          /\ \A n \in 1..Len(passes'[p].calls) :
               /\ passes'[p].calls[n].room = passes'[p].result.room
               /\ passes'[p].calls[n].strategy = passes'[p].result.strategy
               /\ passes'[p].calls[n].room # facade'.room]_vars

\* A reconnection has replaced the room and handed the replacement to a
\* handler, while the facade still shows the room and strategy of the initial
\* pass.
C18_Witness ==
  /\ facade.status = "resolved"
  /\ currentRoom # facade.room
  /\ strategies[currentModule].name # facade.strategy
  /\ \E p \in PassIds :
       /\ passes[p].calls # << >>
       /\ passes[p].calls[1].room = currentRoom

\* ------------------------------------------------------------------ C19
\* C19: a step in which load() of a pass's strategy rejects and a step in
\* which its joinRoom throws do the same: no room is joined, nothing is
\* adopted, watched or probed, and the pass calls load() of the next strategy
\* or, after the last strategy, fails; and a pass fails only with every
\* strategy of the registry tried, in order, none of them adopted.
C19_StrategyErrorsAdvanceThePass ==
  [][\A p \in PassIds :
       LET n == Len(passes'[p].tried)
           i == passes[p].idx
       IN /\ (n > Len(passes[p].tried) /\ passes'[p].tried[n].outcome \in {"load", "join"}) =>
               /\ passes[p].pc = "load"
               /\ passes'[p].tried[n] =
                    [idx |-> i, outcome |-> passes'[p].tried[n].outcome, room |-> NoRoom]
               /\ rooms' = rooms
               /\ currentRoom' = currentRoom
               /\ currentModule' = currentModule
               /\ disconnectListeners' = disconnectListeners
               /\ openListeners' = openListeners
               /\ timers' = timers
               /\ IF i < Len(strategies)
                  THEN /\ passes'[p].pc = "load"
                       /\ passes'[p].idx = i + 1
                       /\ passes'[p].loaded = Append(passes[p].loaded, i + 1)
                  ELSE /\ passes'[p].pc = "failed"
                       /\ passes'[p].loaded = passes[p].loaded
          /\ Ends(p, "failed") =>
               /\ i = Len(strategies)
               /\ n = Len(strategies)
               /\ \A k \in 1..n : /\ passes'[p].tried[k].idx = k
                                   /\ passes'[p].tried[k].outcome # "ok"]_vars

\* A pass whose first strategy failed to load and whose second strategy's
\* joinRoom threw has gone on and adopted the third.
C19_Witness ==
  \E p \in PassIds :
    /\ Len(passes[p].tried) = 3
    /\ passes[p].tried[1].outcome = "load"
    /\ passes[p].tried[2].outcome = "join"
    /\ passes[p].tried[3].outcome = "ok"
    /\ passes[p].pc = "done"

\* ------------------------------------------------------------------ C20
\* C20: a pass has called getRelaySockets only on strategies whose load()
\* resolved and whose joinRoom returned a RoomHandle in that pass; a strategy
\* whose load() rejected or whose joinRoom threw in the pass, and the
\* strategy the pass is still loading, was not asked for its sockets, and
\* the pass has attached neither an open listener nor a disconnect listener
\* to any of its sockets.
C20_SocketsAskedOnlyAfterJoin ==
  \A p \in PassIds :
    LET untouched(i) ==
          /\ i \notin passes[p].asked
          /\ <<p, i>> \notin DOMAIN rooms
          /\ \A ws \in Range(strategies[i].sockets) :
               /\ p \notin Range(openListeners[ws])
               /\ ws \notin passes[p].watched
    IN /\ \A i \in passes[p].asked :
            /\ i \in Range(passes[p].loaded)
            /\ <<p, i>> \in DOMAIN rooms
            /\ strategies[i].getRelaySockets
       /\ \A k \in 1..Len(passes[p].tried) :
            passes[p].tried[k].outcome \in {"load", "join"} =>
              /\ passes[p].tried[k].room = NoRoom
              /\ untouched(passes[p].tried[k].idx)
       /\ passes[p].pc = "load" => untouched(passes[p].idx)

\* In a pass the first strategy, which has sockets, failed before its
\* joinRoom returned, and a later strategy was joined and asked for its
\* sockets.
C20_Witness ==
  \E p \in PassIds :
    /\ Len(passes[p].tried) > 1
    /\ passes[p].tried[1].outcome \in {"load", "join"}
    /\ strategies[1].sockets # << >>
    /\ 1 \notin passes[p].asked
    /\ passes[p].asked # {}

\* ------------------------------------------------------------------ C21
\* C21: every reconnect handler that has been called was called with the
\* room that was currentRoom at that moment, of the module that was
\* currentModule, after the pass had attached the close and the error
\* listener to every socket of that module.
C21_HandlerCalledAfterWiring ==
  \A p \in PassIds :
    /\ Len(passes[p].wired) = Len(passes[p].calls)
    /\ \A n \in 1..Len(passes[p].wired) : passes[p].wired[n]

\* A reconnection pass has adopted a strategy with sockets, which it watched
\* itself, and has called a handler with the room that is current, while a
\* further pass started by a close or error event is under way.
C21_Witness ==
  \E p, q \in PassIds :
    /\ passes[p].calls # << >>
    /\ passes[p].watched # {}
    /\ passes[p].pc = "done"
    /\ q > p
    /\ currentRoom = passes[p].result.room
    /\ passes[q].tried = << >>

\* ------------------------------------------------------------------ C22
\* C22 as claimed: a step changes currentRoom or currentModule only by
\* setting both to the room and the module of a candidate that a pass returns
\* in that step; and a step in which a pass rejects a candidate, whatever the
\* reason, leaves that candidate's room out of currentRoom and no close or
\* error listener on that candidate's sockets.
C22_AdoptionIsAllOrNothing ==
  [][/\ (currentRoom' # currentRoom \/ currentModule' # currentModule) =>
          \E q \in PassIds :
            /\ Ends(q, "done")
            /\ currentRoom' = passes'[q].result.room
            /\ currentModule' = passes'[q].idx
            /\ passes'[q].tried[Len(passes'[q].tried)].outcome = "ok"
     /\ \A p \in PassIds :
          LET n == Len(passes'[p].tried)
          IN (n > Len(passes[p].tried) /\ passes'[p].tried[n].outcome # "ok") =>
               /\ passes'[p].tried[n].room = NoRoom \/ currentRoom' # passes'[p].tried[n].room
               /\ Range(SocketList(passes'[p].tried[n].idx)) \cap Watched' = {}]_vars

\* ------------------------------------------------------------------ C23
\* C23: a pass has called load() on the strategies 1..k in that order, once
\* each, and has tried them in that order; while it is suspended in a probe
\* the probe's timer is pending; and, every load(), timer and awaited leave()
\* settling, a pass that is suspended comes to return or to fail.
C23_PassTerminates ==
  /\ [](\A p \in PassIds :
          /\ passes[p].loaded = [j \in 1..Len(passes[p].loaded) |-> j]
          /\ Len(passes[p].loaded) <= Len(strategies)
          /\ \A k \in 1..Len(passes[p].tried) : passes[p].tried[k].idx = k
          /\ Len(passes[p].tried) \in {passes[p].idx - 1, passes[p].idx}
          /\ passes[p].pc = "probe" => (p \in timers /\ passes[p].probe = "waiting"))
  /\ \A p \in 1..(FanOutPasses + 1) :
       (p \in PassIds /\ InFlight(p))
         ~> (p \in PassIds /\ passes[p].pc \in {"done", "failed"})

\* A reconnection pass has waited out a probe, awaited the leave() of the
\* rejected room, gone through the rest of the registry and failed.
C23_Witness ==
  \E p \in PassIds :
    /\ p > 1
    /\ passes[p].pc = "failed"
    /\ Len(passes[p].loaded) = Len(strategies)
    /\ \E k \in 1..Len(passes[p].tried) :
         /\ passes[p].tried[k].outcome = "unhealthy"
         /\ rooms[passes[p].tried[k].room] = 1

\* ------------------------------------------------------------------ C24
\* C24 as claimed: an open listener of a pass's probe is on a socket, and the
\* probe's timer is pending, only while the pass is suspended in that probe,
\* which is then unresolved; once the probe has resolved none is left.
C24_ResolvedProbeLeavesNothing ==
  \A p \in PassIds :
    /\ \A ws \in Sockets :
         p \in Range(openListeners[ws]) =>
           /\ passes[p].pc = "probe"
           /\ passes[p].probe = "waiting"
           /\ passes[p].idx = OwnerOf(ws)
    /\ p \in timers => (passes[p].pc = "probe" /\ passes[p].probe = "waiting")

\* ------------------------------------------------------------------ C25
\* C25: a step in which a pass joins a candidate of which some socket,
\* whatever its place in the list, has readyState OPEN is the step in which
\* the pass returns that candidate as adopted: the probe has resolved true
\* with no timer left pending and no event awaited.
C25_OpenSocketResolvesAtOnce ==
  [][\A p \in PassIds :
       LET i == passes[p].idx
           r == <<p, i>>
       IN (/\ r \notin DOMAIN rooms
           /\ r \in DOMAIN rooms'
           /\ \E ws \in Range(SocketList(i)) : IsOpen(sock[ws])) =>
            /\ sock' = sock
            /\ passes'[p].pc = "done"
            /\ passes'[p].result = [room |-> r, strategy |-> strategies[i].name]
            /\ passes'[p].tried[Len(passes'[p].tried)] =
                 [idx |-> i, outcome |-> "ok", room |-> r]
            /\ currentRoom' = r
            /\ p \notin timers'
            /\ timers' = timers]_vars

\* A pass has adopted a candidate whose second socket had readyState OPEN
\* when the probe started, the first one being closed: the probe attached
\* its listener to the first, met the second and resolved.
C25_Witness ==
  \E p \in PassIds :
    LET list == SocketList(passes[p].idx)
    IN /\ passes[p].pc = "done"
       /\ p > 1
       /\ Len(list) = 2
       /\ sock[list[1]] = "CLOSED"
       /\ IsOpen(sock[list[2]])
       /\ passes[p].result.room = <<p, passes[p].idx>>
       /\ timers = {}

\* ------------------------------------------------------------------ C26
\* C26: in an effect run of useTrysteroRoom the session's leave() is never
\* called twice, it is called only by a run whose cleanup has run and whose
\* joinRoomWithFallback has resolved, and once both have happened, in either
\* order, it has been called exactly once.
C26_HookLeavesExactlyOnce ==
  owner.kind = "useTrysteroRoom" =>
    /\ leaveCalls <= 1
    /\ leaveCalls = 1 <=> (owner.cleaned /\ facade.status = "resolved")

\* The cleanup ran while the join was pending; the join has resolved since,
\* no setRoom was called, leave() was called once and the adopted room left.
C26_Witness ==
  /\ owner.kind = "useTrysteroRoom"
  /\ owner.cleaned
  /\ facade.status = "resolved"
  /\ owner.setRoom = << >>
  /\ leaveCalls = 1
  /\ rooms[facade.room] = 1

\* ------------------------------------------------------------------ C27
\* C27: in a mount of App whose joinRoomWithFallback has resolved and whose
\* unmount cleanup has run, in either order, the session's leave() has been
\* called (nothing the effect does later calls it: the cleanup runs once and
\* the .then callback never calls leave()).
C27_AppLeavesOnceUnmounted ==
  (owner.kind = "App" /\ owner.cleaned /\ facade.status = "resolved") => leaveCalls >= 1

\* ------------------------------------------------------------------ C28
\* C28: once the cleanup of an effect run of useTrysteroRoom has run, no step
\* calls setRoom for that run: not the continuation of the pending join, not
\* a reconnection pass that was in flight, not a close or error event that
\* comes later.
C28_NoSetRoomAfterCleanup ==
  [][(owner.kind = "useTrysteroRoom" /\ owner.cleaned) => owner'.setRoom = owner.setRoom]_vars

\* The initial join called setRoom; a reconnection pass was in flight when the
\* cleanup ran and has returned a room since, without calling the handler.
C28_Witness ==
  /\ owner.kind = "useTrysteroRoom"
  /\ owner.cleaned
  /\ Len(owner.setRoom) = 1
  /\ \E p \in PassIds :
       /\ p > 1
       /\ passes[p].pc = "done"
       /\ passes[p].calls = << >>

\* ------------------------------------------------------------------ C29
\* The room most recently delivered to the reconnect handler of a session
\* owned by useTrysteroRoom, whose handler passes every room it is given to
\* setRoom after the initial setRoom(manager.room): the initial room if no
\* reconnection has delivered one.
C29_Delivered ==
  IF owner.setRoom = << >> THEN facade.room ELSE owner.setRoom[Len(owner.setRoom)]

\* C29: whenever the join has resolved and no pass is in flight (handlers are
\* dispatched within the step that adopts a room, so no dispatch is pending
\* between steps), the room most recently delivered is currentRoom, the room
\* leave() closes.
C29_DeliveredRoomIsCurrent ==
  (/\ owner.kind = "useTrysteroRoom"
   /\ facade.status = "resolved"
   /\ \A p \in PassIds : ~InFlight(p)) => currentRoom = C29_Delivered

\* ------------------------------------------------------------------ C30
\* Pass p, and no other pass, returns a room in this step and the reconnect
\* handler it calls last throws.
C30_HandlerThrows(p) ==
  /\ Ends(p, "done")
  /\ \A q \in PassIds \ {p} : ~Ends(q, "done")
  /\ passes'[p].calls # << >>
  /\ \E h \in Range(reconnectHandlers) :
       /\ h.id = passes'[p].calls[Len(passes'[p].calls)].handler
       /\ h.throws

\* C30: when a reconnect handler throws, the exception is caught and logged
\* by handleDisconnect and the step ends as a reconnection does: the room of
\* the pass is currentRoom, its module currentModule, every socket of the
\* module carries the close and error listeners, `active` is what it was, and
\* in a session that has not been left a close or error event on such a
\* socket starts a pass at the first strategy.
C30_ThrowingHandlerUndoesNothing ==
  [][\A p \in PassIds :
       C30_HandlerThrows(p) =>
         /\ passes'[p].logged
         /\ currentRoom' = passes'[p].result.room
         /\ passes'[p].result.room = <<p, passes'[p].idx>>
         /\ currentModule' = passes'[p].idx
         /\ active' = active
         /\ reconnectHandlers' = reconnectHandlers
         /\ \A ws \in Range(SocketList(passes'[p].idx)), t \in {"close", "error"} :
              /\ <<ws, t>> \in disconnectListeners'
              /\ LET s1 == FireDisconnect(St', ws, t)
                 IN active =>
                    /\ Len(s1.passes) = Len(passes') + 1
                    /\ s1.passes[Len(s1.passes)].kind = "reconnect"
                    /\ s1.passes[Len(s1.passes)].loaded = <<1>>]_vars

\* A handler threw in reconnection pass p, which adopted a strategy with
\* sockets: the throw is logged, the room of p is current, its sockets carry
\* the listeners and the session is active.
C30_Witness ==
  \E p \in PassIds :
    /\ passes[p].pc = "done"
    /\ passes[p].calls # << >>
    /\ passes[p].logged
    /\ SocketList(passes[p].idx) # << >>
    /\ currentRoom = passes[p].result.room
    /\ currentModule = passes[p].idx
    /\ \A ws \in Range(SocketList(passes[p].idx)) : <<ws, "close">> \in disconnectListeners
    /\ active
====
